---------------------------- MODULE Spec2Model ----------------------------
(***************************************************************************)
(* Pair search of stac-fastapi-pgstac-pair-search: the request model       *)
(* (models.py), the client that sanitizes the request, calls the engine    *)
(* function pair_search_alt and post-processes its payload (client.py),    *)
(* and the engine itself, modelled from its specification.                 *)
(*                                                                         *)
(* Strings that the code splits or parses are sequences of one-character   *)
(* strings (<<"a", ",", "b">> is "a,b"); other strings are TLA+ strings.   *)
(* A parameter value as it arrives (query string or JSON body) is a record *)
(* tagged by k: absent key, JSON null, string (str: characters, tok: a     *)
(* string taken whole, json: the JSON text of a value), list, number,      *)
(* object.                                                                 *)
(***************************************************************************)
EXTENDS Integers, Sequences, FiniteSets, TLC

VARIABLES
    catalog,      \* the items of the catalog, in the engine's storage order
    useApiHydrate,\* settings.use_api_hydrate
    sideRows,     \* the pairs a first-only / second-only payload is drawn from
    method,       \* method[i]: "GET" or "POST" of request i
    raw,          \* raw[i]: the parameters as sent (query items / JSON body)
    values,       \* values[i]: the mapping object handed to model_validate
    pc,           \* pc[i]: where request i is
    req,          \* req[i]: the validated PairSearchRequest (by alias)
    err,          \* err[i]: the error the request ended with, "" if none
    query,        \* query[i]: the sanitized request sent to the engine
    items,        \* items[i]: the engine's payload
    resp,         \* resp[i]: the response body
    engineCalls,  \* engineCalls[i]: engine round trips made for request i
    raised,       \* raised[i]: the exception the engine call raised, "" if none
    baseItemFetches, \* baseItemFetches[i]: base items fetched to hydrate the features
    compiled,     \* compiled[i]: what the request's filter_sql property returned
    fixed,        \* the tree handed to _fix_filter, and what each pass over it returned
    environ,      \* os.environ: the value of PAIR_SEARCH_COLLECTION_SEARCH_LIMIT, if set
    searchParams, \* searchParams[side]: what the request's <side>_search_params() returned
    linked        \* the feature handed to _add_item_links, the exclusion set, the outcome

vars == <<catalog, useApiHydrate, sideRows, method, raw, values, pc, req, err, query,
          items, resp, engineCalls, raised, baseItemFetches, compiled, fixed, environ,
          searchParams, linked>>

-----------------------------------------------------------------------------
(* Bounds of the model *)

MaxItems == 5      \* catalogs hold the first 0..MaxItems items of ItemList
MaxStrLen == 3     \* comma-separated strings have at most this many characters
MaxArity == 7      \* a bbox has at most this many components

-----------------------------------------------------------------------------
(* Parameter values *)

Absent == [k |-> "absent"]
Null == [k |-> "null"]
Str(s) == [k |-> "str", v |-> s]
JsonStr(j) == [j |-> j, k |-> "json"]
List(l) == [k |-> "list", v |-> l]
Num(n) == [k |-> "num", v |-> n]
Obj(o) == [k |-> "obj", v |-> o]

EmptyDict == [type |-> "", box |-> <<>>]
Polygon(b) == [type |-> "Polygon", box |-> b]

\* values.get(key): None for a missing key and for JSON null
IsNone(w) == w.k \in {"absent", "null"}

\* isinstance(w, str)
IsStr(w) == w.k \in {"str", "json", "tok"}

\* Python truthiness: `if bbox`, `if ids`, ...
Truthy(w) ==
    CASE w.k = "absent" -> FALSE
      [] w.k = "null" -> FALSE
      [] w.k = "str" -> w.v # <<>>
      [] w.k = "json" -> TRUE
      [] w.k = "tok" -> w.v # ""
      [] w.k = "list" -> w.v # <<>>
      [] w.k = "num" -> w.v # 0
      [] w.k = "obj" -> w.v.type # ""

Sides == <<"first", "second">>
SideFields == {"bbox", "datetime", "intersects", "ids", "collections"}
Key(prefix, name) == prefix \o "-" \o name
SideKeys == {Key(p, n) : p \in {"first", "second"}, n \in SideFields}
SharedKeys == {"limit", "offset", "response-type", "filter", "filter_lang",
               "filter_expr"}
Keys == SideKeys \cup SharedKeys

-----------------------------------------------------------------------------
(* str.split, float(), int() and str.join on character sequences *)

Digits == <<"0", "1", "2", "3", "4", "5", "6", "7", "8", "9">>
IsDigit(c) == \E d \in 1..10 : Digits[d] = c
DigitVal(c) == (CHOOSE d \in 1..10 : Digits[d] = c) - 1

RECURSIVE split(_, _)
split(s, sep) ==
    IF \A i \in 1..Len(s) : s[i] # sep
    THEN <<s>>
    ELSE LET i == CHOOSE i \in 1..Len(s) :
                    s[i] = sep /\ \A j \in 1..(i - 1) : s[j] # sep
         IN <<SubSeq(s, 1, i - 1)>> \o split(SubSeq(s, i + 1, Len(s)), sep)

\* the strings float() and int() accept: here, non-empty digit strings
IsNumeric(s) == s # <<>> /\ \A i \in 1..Len(s) : IsDigit(s[i])

RECURSIVE ToNum(_)
ToNum(s) ==
    IF s = <<>> THEN 0
    ELSE 10 * ToNum(SubSeq(s, 1, Len(s) - 1)) + DigitVal(s[Len(s)])

RECURSIVE NumStr(_)
NumStr(n) ==
    IF n < 10 THEN <<Digits[n + 1]>>
    ELSE NumStr(n \div 10) \o <<Digits[(n % 10) + 1]>>

RECURSIVE join(_, _)
join(parts, sep) ==
    IF parts = <<>> THEN <<>>
    ELSE IF Len(parts) = 1 THEN parts[1]
    ELSE parts[1] \o <<sep>> \o join(Tail(parts), sep)

-----------------------------------------------------------------------------
(* Program constants *)

DefaultLimit == 10
MaxLimit == 10000
COLLECTION_SEARCH_LIMIT == 1000

-----------------------------------------------------------------------------
(* Filter texts and the trees the cql2 parser gives for them *)

Tok(t) == [k |-> "tok", v |-> t]

Prop(side, path) == [t |-> "prop", side |-> side, path |-> path]
Op(op, args) == [t |-> "op", op |-> op, args |-> args]

FilterLater == "second.datetime > first.datetime"
FilterSameId == "first.id = second.id"
FilterSameIdOrLater == "first.id = second.id OR second.datetime > first.datetime"
FilterBroken == "second.datetime >"

ValidFilterTexts == {FilterLater, FilterSameId, FilterSameIdOrLater}

\* cql2.Expr(text).validate() does not raise
Cql2Valid(text) == text \in ValidFilterTexts

\* cql2.Expr(text).to_json()
Cql2ToJson(text) ==
    CASE text = FilterLater ->
            Op(">", <<Prop("second", "datetime"), Prop("first", "datetime")>>)
      [] text = FilterSameId ->
            Op("=", <<Prop("first", "id"), Prop("second", "id")>>)
      [] text = FilterSameIdOrLater ->
            Op("or", <<Op("=", <<Prop("first", "id"), Prop("second", "id")>>),
                       Op(">", <<Prop("second", "datetime"),
                                 Prop("first", "datetime")>>)>>)

-----------------------------------------------------------------------------
(* PairSearchRequest: the before-validator validate_spatial *)

Fail(e, vals) == [err |-> e, values |-> vals]
Pass(vals) == [err |-> "", values |-> vals]

\* json.loads of a string value; [ok, v]
json_loads(w) ==
    IF w.k = "json" THEN [ok |-> TRUE, v |-> w.j]
    ELSE IF w.k = "str" /\ IsNumeric(w.v) THEN [ok |-> TRUE, v |-> Num(ToNum(w.v))]
    ELSE [ok |-> FALSE, v |-> Null]

\* list(map(float, bbox.split(",")))
FloatList(s) ==
    LET parts == split(s, ",")
    IN IF \A i \in 1..Len(parts) : IsNumeric(parts[i])
       THEN [ok |-> TRUE, v |-> List([i \in 1..Len(parts) |-> ToNum(parts[i])])]
       ELSE [ok |-> FALSE, v |-> Null]

\* `values[f"{prefix}-ids"] = [ids]` for a string value
IdsFromString(s) == List(<<s>>)

\* `values[f"{prefix}-collections"] = collections.split(",")`
CollectionsFromString(s) == List(split(s, ","))

\* validate_spatial without the mutual-exclusion test: C4 fails under it
CheckExclusive_Skipped(r, prefix) == r

\* `if bbox and intersects: raise ValueError(...)`
CheckExclusive(r, prefix) ==
    IF r.err = "" /\ Truthy(r.values[Key(prefix, "bbox")])
                  /\ Truthy(r.values[Key(prefix, "intersects")])
    THEN Fail("mutually_exclusive", r.values)
    ELSE r

\* `if bbox: if isinstance(bbox, str): values[...] = list(map(float, ...))`
ConvertBBox(r, prefix, bbox) ==
    IF r.err = "" /\ Truthy(bbox) /\ bbox.k = "str"
    THEN IF FloatList(bbox.v).ok
         THEN Pass([r.values EXCEPT ![Key(prefix, "bbox")] = FloatList(bbox.v).v])
         ELSE Fail("bbox_not_float", r.values)
    ELSE r

\* `if intersects: if isinstance(intersects, str): values[...] = json.loads(...)`
ConvertIntersects(r, prefix, intersects) ==
    IF r.err = "" /\ Truthy(intersects) /\ IsStr(intersects)
    THEN IF json_loads(intersects).ok
         THEN Pass([r.values EXCEPT ![Key(prefix, "intersects")] = json_loads(intersects).v])
         ELSE Fail("intersects_not_json", r.values)
    ELSE r

\* `if isinstance(collections, str): values[...] = collections.split(",")`
ConvertCollections(r, prefix, collections) ==
    IF r.err = "" /\ collections.k = "str"
    THEN Pass([r.values EXCEPT ![Key(prefix, "collections")] =
                                    CollectionsFromString(collections.v)])
    ELSE r

\* `if ids: if isinstance(ids, str): values[...] = [ids]`
ConvertIds(r, prefix, ids) ==
    IF r.err = "" /\ Truthy(ids) /\ ids.k = "str"
    THEN Pass([r.values EXCEPT ![Key(prefix, "ids")] = IdsFromString(ids.v)])
    ELSE r

\* one turn of `for prefix in ["first", "second"]`; the four values are read
\* from the mapping before any of them is converted
ValidateSide(r, prefix) ==
    ConvertIds(
      ConvertCollections(
        ConvertIntersects(
          ConvertBBox(CheckExclusive(r, prefix), prefix,
                      r.values[Key(prefix, "bbox")]),
          prefix, r.values[Key(prefix, "intersects")]),
        prefix, r.values[Key(prefix, "collections")]),
      prefix, r.values[Key(prefix, "ids")])

\* `filter_expr = values.get("filter_expr")` and its cql2 validation
CheckFilterExpr(r) ==
    IF /\ r.err = ""
       /\ Truthy(r.values["filter_expr"])
       /\ ~(r.values["filter_expr"].k = "tok" /\ Cql2Valid(r.values["filter_expr"].v))
    THEN Fail("invalid_cql2", r.values)
    ELSE r

validate_spatial(vals) ==
    CheckFilterExpr(ValidateSide(ValidateSide(Pass(vals), Sides[1]), Sides[2]))

-----------------------------------------------------------------------------
(* PairSearchRequest: the fields' types and after-validators *)

Good(v) == [ok |-> TRUE, v |-> v]
Bad == [ok |-> FALSE, v |-> Null]

\* ValidateLimit that never reads the value sent: C2 fails under it
ValidateLimit_AlwaysDefault(w) == [ok |-> TRUE, v |-> Num(DefaultLimit)]

\* ValidateLimit that crops to the default instead of the maximum: C6 fails
\* under it
ValidateLimit_CroppedToDefault(w) ==
    CASE w.k = "absent" -> [ok |-> TRUE, v |-> Num(DefaultLimit)]
      [] w.k = "null" -> [ok |-> TRUE, v |-> Null]
      [] w.k = "num" ->
            IF w.v > 0
            THEN [ok |-> TRUE, v |-> Num(IF w.v > DefaultLimit THEN DefaultLimit ELSE w.v)]
            ELSE [ok |-> FALSE, v |-> Null]
      [] w.k = "str" /\ IsNumeric(w.v) ->
            IF ToNum(w.v) > 0
            THEN [ok |-> TRUE,
                  v |-> Num(IF ToNum(w.v) > DefaultLimit THEN DefaultLimit
                            ELSE ToNum(w.v))]
            ELSE [ok |-> FALSE, v |-> Null]
      [] OTHER -> [ok |-> FALSE, v |-> Null]

\* limit: Optional[Limit] = 10, Limit a positive integer cropped to 10_000
ValidateLimit(w) ==
    LET n == IF w.k = "num" THEN w.v ELSE ToNum(w.v)
    IN CASE w.k = "absent" -> Good(Num(DefaultLimit))
         [] w.k = "null" -> Good(Null)
         [] w.k = "num" \/ (w.k = "str" /\ IsNumeric(w.v)) ->
                IF n > 0 THEN Good(Num(IF n > MaxLimit THEN MaxLimit ELSE n))
                ELSE Bad
         [] OTHER -> Bad

\* offset: Optional[NonNegativeInt] = 0
ValidateOffset(w) ==
    CASE w.k = "absent" -> Good(Num(0))
      [] w.k = "null" -> Good(Null)
      [] w.k = "num" -> IF w.v >= 0 THEN Good(w) ELSE Bad
      [] w.k = "str" /\ IsNumeric(w.v) -> Good(Num(ToNum(w.v)))
      [] OTHER -> Bad

\* stac_pydantic's validate_bbox on a tuple the BBox type let through
validate_bbox(b) ==
    LET xmin == b[1]
        ymin == b[2]
        xmax == IF Len(b) = 4 THEN b[3] ELSE b[4]
        ymax == IF Len(b) = 4 THEN b[4] ELSE b[5]
    IN /\ Len(b) \in {4, 6}
       /\ Len(b) = 6 => ~(b[6] < b[3])
       /\ ~(xmin < -180 \/ ymin < -90 \/ xmax > 180 \/ ymax > 90)
       /\ ~(ymax < ymin)

\* the arities the BBox type accepts: a 4-tuple or a 6-tuple of numbers
BBoxArities == {4, 6}

\* a bbox field typed as a list of numbers of any length: C10 fails under it
ValidateBBox_AnyArity(w) ==
    CASE IsNone(w) -> [ok |-> TRUE, v |-> Null]
      [] w.k = "list" -> [ok |-> TRUE, v |-> w]
      [] OTHER -> [ok |-> FALSE, v |-> Null]

\* first_bbox / second_bbox: Annotated[Optional[BBox], AfterValidator(validate_bbox)]
ValidateBBox(w) ==
    CASE IsNone(w) -> Good(Null)
      [] w.k = "list" ->
            IF Len(w.v) \in BBoxArities /\ validate_bbox(w.v) THEN Good(w) ELSE Bad
      [] OTHER -> Bad

\* the instants and intervals of a datetime string: "3", "1/3"; [ok, lo, hi]
str_to_datetimes(s) ==
    LET parts == split(s, "/")
    IN IF Len(parts) \in {1, 2} /\ \A i \in 1..Len(parts) : IsNumeric(parts[i])
       THEN [ok |-> TRUE, lo |-> ToNum(parts[1]), hi |-> ToNum(parts[Len(parts)])]
       ELSE [ok |-> FALSE, lo |-> 0, hi |-> 0]

\* first_datetime / second_datetime: Optional[str] with validate_datetime
ValidateDatetime(w) ==
    CASE IsNone(w) -> Good(Null)
      [] w.k = "str" ->
            LET d == str_to_datetimes(w.v)
            IN IF d.ok /\ d.lo <= d.hi THEN Good(w) ELSE Bad
      [] OTHER -> Bad

\* first_intersects / second_intersects: Optional[Intersection]
ValidateIntersects(w) ==
    CASE IsNone(w) -> Good(Null)
      [] w.k = "obj" -> IF w.v.type = "Polygon" THEN Good(w) ELSE Bad
      [] OTHER -> Bad

\* a list field that must be present: C11 fails under it
ValidateStrList_Required(w) ==
    CASE w.k = "list" -> [ok |-> TRUE, v |-> w]
      [] OTHER -> [ok |-> FALSE, v |-> Null]

\* first_ids, second_ids, first_collections, second_collections:
\* Optional[List[str]] = None
ValidateStrList(w) ==
    CASE IsNone(w) -> Good(Null)
      [] w.k = "list" -> Good(w)
      [] OTHER -> Bad

ResponseTypes == {"pair", "first-only", "second-only"}

\* a response_type that is always "pair": C14 fails under it
ValidateResponseType_AlwaysPair(w) == [ok |-> TRUE, v |-> Tok("pair")]

\* response_type: Optional[Literal["pair", "first-only", "second-only"]] = "pair"
ValidateResponseType(w) ==
    CASE w.k = "absent" -> Good(Tok("pair"))
      [] w.k = "null" -> Good(Null)
      [] w.k = "tok" -> IF w.v \in ResponseTypes THEN Good(w) ELSE Bad
      [] OTHER -> Bad

\* filter_expr: Optional[str], alias "filter"
ValidateFilter(w) ==
    CASE IsNone(w) -> Good(Null)
      [] IsStr(w) -> Good(w)
      [] OTHER -> Bad

\* filter_lang: Optional[FilterLang] = "cql2-text"
ValidateFilterLang(w) ==
    CASE w.k = "absent" -> Good(Tok("cql2-text"))
      [] w.k = "null" -> Good(Null)
      [] w.k = "tok" -> IF w.v \in {"cql2-text", "cql2-json"} THEN Good(w) ELSE Bad
      [] OTHER -> Bad

ModelKeys == Keys \ {"filter_expr"}

ValidateField(key, w) ==
    CASE key = "limit" -> ValidateLimit(w)
      [] key = "offset" -> ValidateOffset(w)
      [] key = "response-type" -> ValidateResponseType(w)
      [] key = "filter" -> ValidateFilter(w)
      [] key = "filter_lang" -> ValidateFilterLang(w)
      [] key \in {Key(p, "bbox") : p \in {"first", "second"}} -> ValidateBBox(w)
      [] key \in {Key(p, "datetime") : p \in {"first", "second"}} -> ValidateDatetime(w)
      [] key \in {Key(p, "intersects") : p \in {"first", "second"}} -> ValidateIntersects(w)
      [] OTHER -> ValidateStrList(w)

\* the fields validated from the mapping the before-validator returned
ValidatedFields(before, fields) ==
    IF before.err # ""
    THEN [err |-> before.err, values |-> before.values, model |-> Null]
    ELSE IF \E key \in ModelKeys : ~fields[key].ok
    THEN [err |-> "invalid_field", values |-> before.values, model |-> Null]
    ELSE [err |-> "", values |-> before.values,
          model |-> [key \in ModelKeys |-> fields[key].v]]

\* the second side's fields read from the first side's values: C7 fails under it
FieldResults_SecondFromFirst(before) ==
    [key \in ModelKeys |->
        IF \E f \in SideFields : key = Key("second", f)
        THEN ValidateField(key, before.values[
                Key("first", CHOOSE f \in SideFields : key = Key("second", f))])
        ELSE ValidateField(key, before.values[key])]

FieldResults(before) ==
    [key \in ModelKeys |-> ValidateField(key, before.values[key])]

ValidateFields(before) == ValidatedFields(before, FieldResults(before))

\* PairSearchRequest.model_validate(values, by_alias=True):
\* [err, values (as the before-validator left the mapping), model]
model_validate(vals) == ValidateFields(validate_spatial(vals))

-----------------------------------------------------------------------------
(* PairSearchClient._sanitize_pair_search_request *)

NumLit(n) == [t |-> "num", val |-> n]
IsNumLit(node) == node.t = "num"

\* _fix_filter: -1 * <number> becomes the negative number, at any depth
RECURSIVE _fix_filter(_)
_fix_filter(node) ==
    IF node.t # "op" THEN node
    ELSE IF /\ node.op = "*"
            /\ IsNumLit(node.args[1]) /\ node.args[1].val = -1
            /\ IsNumLit(node.args[2])
         THEN _fix_filter(NumLit(-node.args[2].val))
         ELSE [node EXCEPT !.args = [i \in 1..Len(node.args) |->
                                        _fix_filter(node.args[i])]]

Tree(t) == [k |-> "tree", v |-> t]

\* the `filter` / `filter_lang` branch: [err, filter, lang]
SanitizeFilter(filter, lang) ==
    IF ~Truthy(filter) THEN [err |-> "", filter |-> Null, lang |-> lang]
    ELSE IF lang = Tok("cql2-text")
    THEN IF filter.k = "tok" /\ Cql2Valid(filter.v)
         THEN [err |-> "", filter |-> Tree(_fix_filter(Cql2ToJson(filter.v))),
               lang |-> Tok("cql2-json")]
         ELSE [err |-> "cql2_parse_error", filter |-> filter, lang |-> lang]
    ELSE [err |-> "", filter |-> filter, lang |-> lang]

\* keys whose value is None or [] are dropped
Dropped(w) == IsNone(w) \/ (w.k = "list" /\ w.v = <<>>)

Sanitized(model, f) ==
    [err |-> f.err,
     query |-> [key \in ModelKeys |->
                  CASE key = "filter" -> IF Dropped(f.filter) THEN Absent ELSE f.filter
                    [] key = "filter_lang" -> IF Dropped(f.lang) THEN Absent ELSE f.lang
                    [] OTHER -> IF Dropped(model[key]) THEN Absent ELSE model[key]]]

\* [err, query]: the mapping that is serialized and sent to the engine
_sanitize_pair_search_request(model) ==
    Sanitized(model, SanitizeFilter(model["filter"], model["filter_lang"]))

-----------------------------------------------------------------------------
(* The catalog *)

Item(id, collection, x, y, t) ==
    [id |-> id, collection |-> collection, x |-> x, y |-> y, t |-> t]

ItemList ==
    << Item(<<"a">>, <<"A">>, 0, 0, 1),
       Item(<<"b">>, <<"A">>, 2, 2, 2),
       Item(<<"a">>, <<"B">>, 2, 2, 3),
       Item(<<"c">>, <<"A">>, 2, 2, 3),
       Item(<<"d">>, <<"A">>, 2, 3, 2),
       Item(<<"e">>, <<"A">>, 3, 2, 4),
       Item(<<"f">>, <<"B">>, 3, 3, 4) >>

Catalogs == {SubSeq(ItemList, 1, n) : n \in 0..MaxItems}

-----------------------------------------------------------------------------
(* PairSearchRequest.filter_sql: the filter as an SQL template *)

\* a filter text given by its parse, cql2.Expr(text)
Parsed(tree) == [k |-> "cql", v |-> tree]

\* the SQL text is a sequence of tokens: plain text, a literal, a quoted
\* identifier as to_sql() writes a property, or the column expression the
\* replacer puts in its place
SqlText(v) == [t |-> "text", v |-> v]
SqlIdent(side, path) == [t |-> "ident", side |-> side, path |-> path]
\* {prefix}.feature, then ->'properties' unless root, then -> or (text) ->>
\* and the key
SqlColumn(prefix, root, text, key) ==
    [t |-> "col", prefix |-> prefix, root |-> root, text |-> text, key |-> key]
Quoted(name) == [k |-> "lit", v |-> name]
Param(n) == [k |-> "param", v |-> n]

NoSql == [err |-> "", template |-> <<>>, params |-> <<>>]

\* expr.to_sql(): a property is written as the quoted identifier of its name
RECURSIVE to_sql(_)
to_sql(node) ==
    CASE node.t = "prop" -> <<SqlIdent(node.side, node.path)>>
      [] node.t = "num" -> <<node>>
      [] node.t = "op" ->
            IF Len(node.args) = 1
            THEN <<SqlText("("), SqlText(node.op)>> \o to_sql(node.args[1])
                 \o <<SqlText(")")>>
            ELSE <<SqlText("(")>> \o to_sql(node.args[1]) \o <<SqlText(node.op)>>
                 \o to_sql(node.args[2]) \o <<SqlText(")")>>

\* names with a colon, `":" in prop_name`
ColonNames == {"eo:cloud_cover", "grid:code"}
root_properties == {"geometry", "id", "collection"}

\* the pattern r'"?\b(first|second)\.([\w:]+)"?' matches the identifier
PatternMatches(token) == token.t = "ident" /\ token.side \in {"first", "second"}

\* one parameter name for every match
property_replacer_FixedName(token, param_counter) ==
    IF token.path \in ColonNames
    THEN SqlColumn(token.side, FALSE, TRUE, Param(1))
    ELSE IF token.path = "geometry"
    THEN SqlColumn(token.side, TRUE, FALSE, Quoted(token.path))
    ELSE IF token.path \in root_properties
    THEN SqlColumn(token.side, TRUE, TRUE, Quoted(token.path))
    ELSE SqlColumn(token.side, FALSE, TRUE, Quoted(token.path))

\* every name read from the properties bag
property_replacer_AllProperties(token, param_counter) ==
    IF token.path \in ColonNames
    THEN SqlColumn(token.side, FALSE, TRUE, Param(param_counter))
    ELSE SqlColumn(token.side, FALSE, TRUE, Quoted(token.path))

\* property_replacer for the match numbered param_counter
property_replacer(token, param_counter) ==
    IF token.path \in ColonNames
    THEN SqlColumn(token.side, FALSE, TRUE, Param(param_counter))
    ELSE IF token.path = "geometry"
    THEN SqlColumn(token.side, TRUE, FALSE, Quoted(token.path))
    ELSE IF token.path \in root_properties
    THEN SqlColumn(token.side, TRUE, TRUE, Quoted(token.path))
    ELSE SqlColumn(token.side, FALSE, TRUE, Quoted(token.path))

\* re.sub(pattern, property_replacer, query_template): the tokens from the
\* n-th on, param_counter matches having been replaced before them
RECURSIVE Substituted(_, _, _)
Substituted(tokens, n, param_counter) ==
    IF n > Len(tokens) THEN [template |-> <<>>, params |-> <<>>]
    ELSE IF PatternMatches(tokens[n])
    THEN [template |-> <<property_replacer(tokens[n], param_counter + 1)>>
                        \o Substituted(tokens, n + 1, param_counter + 1).template,
          params |-> (IF tokens[n].path \in ColonNames
                      THEN <<[name |-> param_counter + 1, value |-> tokens[n].path]>>
                      ELSE <<>>)
                     \o Substituted(tokens, n + 1, param_counter + 1).params]
    ELSE [template |-> <<tokens[n]>>
                        \o Substituted(tokens, n + 1, param_counter).template,
          params |-> Substituted(tokens, n + 1, param_counter).params]

\* cql2.Expr(self.filter_expr)
Cql2Expr(w) ==
    IF w.k = "cql" THEN [ok |-> TRUE, tree |-> w.v]
    ELSE IF w.k = "tok" /\ Cql2Valid(w.v) THEN [ok |-> TRUE, tree |-> Cql2ToJson(w.v)]
    ELSE [ok |-> FALSE, tree |-> NumLit(0)]

\* the SQL text of the filter alone
Compiled_Bare(sub) == [err |-> "", template |-> sub.template, params |-> sub.params]

Compiled(sub) ==
    [err |-> "", template |-> <<SqlText("AND")>> \o sub.template, params |-> sub.params]

\* the property filter_sql of a validated request: [err, template, params]
filter_sql(model) ==
    IF IsNone(model["filter"]) \/ model["filter"] = Tok("") THEN NoSql
    ELSE IF ~Cql2Expr(model["filter"]).ok
    THEN [err |-> "cql2_parse_error", template |-> <<>>, params |-> <<>>]
    ELSE Compiled(Substituted(to_sql(Cql2Expr(model["filter"]).tree), 1, 0))

-----------------------------------------------------------------------------
(* The engine function pair_search_alt *)

EngineDefaultLimit == 10

Min(a, b) == IF a < b THEN a ELSE b
Max(a, b) == IF a > b THEN a ELSE b

InBox(item, b) ==
    LET xmax == IF Len(b) = 4 THEN b[3] ELSE b[4]
        ymax == IF Len(b) = 4 THEN b[4] ELSE b[5]
    IN b[1] <= item.x /\ item.x <= xmax /\ b[2] <= item.y /\ item.y <= ymax

InList(s, l) == \E i \in 1..Len(l) : l[i] = s

\* one side's sub-search predicate: only that side's parameters
SideMatches(item, q, prefix) ==
    LET bbox == q[Key(prefix, "bbox")]
        datetime == q[Key(prefix, "datetime")]
        intersects == q[Key(prefix, "intersects")]
        ids == q[Key(prefix, "ids")]
        collections == q[Key(prefix, "collections")]
        d == str_to_datetimes(datetime.v)
    IN /\ bbox.k = "absent" \/ InBox(item, bbox.v)
       /\ intersects.k = "absent" \/ InBox(item, intersects.v.box)
       /\ datetime.k = "absent" \/ (d.lo <= item.t /\ item.t <= d.hi)
       /\ ids.k = "absent" \/ InList(item.id, ids.v)
       /\ collections.k = "absent" \/ InList(item.collection, collections.v)

\* the candidates of a side, capped
Capped(hits) == SubSeq(hits, 1, Min(Len(hits), COLLECTION_SEARCH_LIMIT))

SideSearch(cat, q, prefix) ==
    LET Hit(item) == SideMatches(item, q, prefix)
    IN Capped(SelectSeq(cat, Hit))

PropValue(node, first, second) ==
    LET item == IF node.side = "first" THEN first ELSE second
    IN CASE node.path = "id" -> item.id
         [] node.path = "collection" -> item.collection
         [] node.path = "datetime" -> item.t

RECURSIVE EvalFilter(_, _, _)
EvalFilter(node, first, second) ==
    CASE node.op = "and" -> \A i \in 1..Len(node.args) :
                                EvalFilter(node.args[i], first, second)
      [] node.op = "or" -> \E i \in 1..Len(node.args) :
                                EvalFilter(node.args[i], first, second)
      [] node.op = "not" -> ~EvalFilter(node.args[1], first, second)
      [] node.op = "=" -> PropValue(node.args[1], first, second)
                            = PropValue(node.args[2], first, second)
      [] node.op = ">" -> PropValue(node.args[1], first, second)
                            > PropValue(node.args[2], first, second)

\* PairPredicate with the filter in place of the identity exclusion instead of
\* beside it: C1 fails under it
PairPredicate_NoIdentity(first, second, filter) ==
    filter.k = "absent" \/ EvalFilter(filter.v, first, second)

\* the base predicate of the cross product, and the filter as a further conjunct
PairPredicate(first, second, filter) ==
    /\ first.id # second.id
    /\ filter.k = "absent" \/ EvalFilter(filter.v, first, second)

\* the cross product of two candidate lists, first side outermost
Cross(c1, c2) ==
    [n \in 1..(Len(c1) * Len(c2)) |->
        <<c1[((n - 1) \div Len(c2)) + 1], c2[((n - 1) % Len(c2)) + 1]>>]

FilterPairs(cross, filter) ==
    LET Keep(pair) == PairPredicate(pair[1], pair[2], filter)
    IN SelectSeq(cross, Keep)

\* the filtered cross product, in the engine's enumeration order
MatchedPairs(cat, q) ==
    FilterPairs(Cross(SideSearch(cat, q, "first"), SideSearch(cat, q, "second")),
                q["filter"])

\* the items of a sequence, each once, in order of first appearance
RECURSIVE Dedup(_)
Dedup(s) ==
    IF s = <<>> THEN <<>>
    ELSE LET rest == Dedup(SubSeq(s, 1, Len(s) - 1))
             last == s[Len(s)]
         IN IF InList(last, rest) THEN rest ELSE Append(rest, last)

Feature(item, hydrated) ==
    [id |-> item.id, collection |-> item.collection, hydrated |-> hydrated,
     links |-> "none"]

NoParams == [key \in Keys |-> Absent]
OffsetParams(n) == [NoParams EXCEPT !["offset"] = Num(n)]

\* the pagination links of the payload: rel and parameters
EngineLinks(limit, offset, matched) ==
    (IF offset + limit < matched
     THEN <<[rel |-> "next", parameters |-> OffsetParams(offset + limit)]>>
     ELSE <<>>)
    \o
    (IF offset > 0
     THEN <<[rel |-> "prev", parameters |-> OffsetParams(Max(offset - limit, 0))]>>
     ELSE <<>>)

\* the page of pairs: the filtered list truncated to limit
Truncate(pairs, limit) == SubSeq(pairs, 1, Min(limit, Len(pairs)))

\* the items of the pairs of a page, first member before second
PairItems(page) ==
    Dedup([n \in 1..(2 * Len(page)) |-> page[(n + 1) \div 2][2 - (n % 2)]])

\* what a first-only / second-only payload is drawn from: every matched
\* pair, or the pairs of the page
SideRowChoices == {"matched", "returned"}

\* the named side's member of each pair, one feature per pair
SideItems(pairs, side) == [n \in 1..Len(pairs) |-> pairs[n][side]]

Features(feats, nohydrate) ==
    [n \in 1..Len(feats) |-> Feature(feats[n], ~nohydrate)]

PairPayload(matched, page, limit, offset, nohydrate) ==
    [type |-> "FeatureCollection",
     kind |-> "pair",
     featurePairs |-> [n \in 1..Len(page) |-> <<page[n][1].id, page[n][2].id>>],
     features |-> Features(PairItems(page), nohydrate),
     links |-> EngineLinks(limit, offset, Len(matched)),
     numberReturned |-> Len(PairItems(page)),
     numberPairsReturned |-> Len(page),
     numberPairsMatched |-> Len(matched),
     numberMatched |-> 0]

SidePayload(matched, feats, limit, offset, nohydrate) ==
    [type |-> "FeatureCollection",
     kind |-> "side",
     featurePairs |-> <<>>,
     features |-> Features(feats, nohydrate),
     links |-> EngineLinks(limit, offset, Len(matched)),
     numberReturned |-> Len(feats),
     numberPairsReturned |-> 0,
     numberPairsMatched |-> 0,
     numberMatched |-> Len(matched)]

Payload(matched, rt, limit, offset, nohydrate, rows) ==
    IF rt = "pair"
    THEN PairPayload(matched, Truncate(matched, limit), limit, offset, nohydrate)
    ELSE SidePayload(matched,
                     SideItems(IF rows = "matched" THEN matched
                               ELSE Truncate(matched, limit),
                               IF rt = "first-only" THEN 1 ELSE 2),
                     limit, offset, nohydrate)

pair_search_alt(cat, q, nohydrate, rows) ==
    Payload(MatchedPairs(cat, q),
            IF q["response-type"].k = "absent" THEN "pair" ELSE q["response-type"].v,
            IF q["limit"].k = "absent" THEN EngineDefaultLimit ELSE q["limit"].v,
            IF q["offset"].k = "absent" THEN 0 ELSE q["offset"].v,
            nohydrate, rows)

-----------------------------------------------------------------------------
(* PairSearchClient: post-processing of the payload *)

\* fields.exclude of the request: PairSearchRequest has no `fields`
Exclude(model) == {}

\* _add_item_links: `not exclude or "links" not in exclude and all([...])`
_add_item_links(feature, exclude) ==
    IF \/ exclude = {}
       \/ ("links" \notin exclude /\ feature.collection # <<>> /\ feature.id # <<>>)
    THEN [feature EXCEPT !.links = "item-links"]
    ELSE feature

\* hydrate(base_item, feature)
hydrate(feature) == [feature EXCEPT !.hydrated = TRUE]

\* _finalize_items whose else-branch appends nothing: C3 fails under it
_finalize_items_NoAppend(features, model, use_api_hydrate) ==
    IF use_api_hydrate
    THEN [n \in 1..Len(features) |->
            _add_item_links(hydrate(features[n]), Exclude(model))]
    ELSE <<>>

_finalize_items(features, model, use_api_hydrate) ==
    [n \in 1..Len(features) |->
        _add_item_links(IF use_api_hydrate THEN hydrate(features[n]) ELSE features[n],
                        Exclude(model))]

\* {link.get("rel"): link.get("parameters") for link in items.get("links")}
LinkParameters(links, rel) ==
    IF \E n \in 1..Len(links) : links[n].rel = rel
    THEN LET n == CHOOSE n \in 1..Len(links) :
                    links[n].rel = rel /\ \A m \in (n + 1)..Len(links) : links[m].rel # rel
         IN [present |-> TRUE, parameters |-> links[n].parameters]
    ELSE [present |-> FALSE, parameters |-> NoParams]

\* {**b, **a}, the request's own parameters winning: C16 fails under it
Merge_RequestWins(a, b) == [key \in Keys |-> IF a[key].k # "absent" THEN a[key] ELSE b[key]]

\* {**a, **b}
Merge(a, b) == [key \in Keys |-> IF b[key].k # "absent" THEN b[key] ELSE a[key]]

\* a value as replace_query_params writes it into the URL
AsQueryValue(w) == IF w.k = "num" THEN Str(NumStr(w.v)) ELSE w

Url(path, params) == [path |-> path, query |-> params]

\* request.url
RequestUrl(m, params) == Url("/pair-search", IF m = "GET" THEN params ELSE NoParams)

Link(rel, m, href, body, type) ==
    [rel |-> rel, method |-> m, href |-> href, body |-> body, type |-> type]

\* the inner _get_link of either method
_get_link(rel, extra, m, params) ==
    IF m = "GET"
    THEN Link(rel, "GET",
              Url("/pair-search",
                  Merge(params, [key \in Keys |-> AsQueryValue(extra[key])])),
              NoParams, "application/geo+json")
    ELSE Link(rel, "POST", RequestUrl(m, params), Merge(params, extra),
              "application/geo+json")

PagingLink(rel, found, m, params) ==
    IF found.present THEN <<_get_link(rel, found.parameters, m, params)>> ELSE <<>>

_get_search_links(links, m, params) ==
    << Link("root", "", Url("/", NoParams), NoParams, "application/json"),
       Link("self", "", RequestUrl(m, params), NoParams, "application/geo+json") >>
    \o PagingLink("next", LinkParameters(links, "next"), m, params)
    \o PagingLink("prev", LinkParameters(links, "prev"), m, params)

INFERRED_LINK_RELS == {"self", "item", "parent", "collection", "root"}

\* get_links that keeps every extra link, the inferred rels too: C5 fails under it
get_links_KeepAll(extra) ==
    << Link("root", "", Url("/", NoParams), NoParams, "application/json"),
       Link("self", "", Url("/pair-search", NoParams), NoParams,
            "application/geo+json") >>
    \o extra

\* PairSearchLinks(request).get_links(extra_links): the inferred root and self
\* links, then the extra links whose rel is not an inferred one
get_links(extra) ==
    LET Kept(link) == link.rel \notin INFERRED_LINK_RELS
    IN << Link("root", "", Url("/", NoParams), NoParams, "application/json"),
          Link("self", "", Url("/pair-search", NoParams), NoParams,
               "application/geo+json") >>
       \o SelectSeq(extra, Kept)

\* _pair_search_base after the engine call, then the handler's get_links
PostProcessed(payload, model, m, params, use_api_hydrate) ==
    [payload EXCEPT
        !.features = _finalize_items(payload.features, model, use_api_hydrate),
        !.links = get_links(_get_search_links(payload.links, m, params))]

-----------------------------------------------------------------------------
(* The requests of the model *)

CollA == <<"A">>
CollB == <<"B">>

\* a request of two plain sides over collection A
BaseParams ==
    [NoParams EXCEPT ![Key("first", "collections")] = List(<<CollA>>),
                     ![Key("second", "collections")] = List(<<CollA>>)]

\* the box and instant that only the first item of ItemList satisfies
OneItemBox == <<0, 0, 1, 1>>

\* what a side may carry: a set of [field |-> value] overrides
SideOptions ==
    { [f \in SideFields |-> Absent] }
    \cup { [[f \in SideFields |-> Absent] EXCEPT ![field] = value] :
            field \in {"bbox"}, value \in {List(OneItemBox), Str(<<"0", ",", "0", ",", "1", ",", "1">>)} }
    \cup { [[f \in SideFields |-> Absent] EXCEPT !["intersects"] = Obj(Polygon(OneItemBox))] }
    \cup { [[f \in SideFields |-> Absent] EXCEPT !["datetime"] = value] :
            value \in {Str(<<"1">>), Str(<<"1", "/", "1">>)} }
    \cup { [[f \in SideFields |-> Absent] EXCEPT !["ids"] = value] :
            value \in {Str(<<"a">>), List(<<<<"a">>>>), List(<<<<"a">>, <<"b">>>>),
                       List(<<>>)} }
    \cup { [[f \in SideFields |-> Absent] EXCEPT !["collections"] = value] :
            value \in {Str(CollA), List(<<CollB>>), List(<<CollA, CollB>>), Null} }

WithSide(params, prefix, option) ==
    [key \in Keys |->
        IF \E f \in SideFields : key = Key(prefix, f) /\ option[f].k # "absent"
        THEN option[CHOOSE f \in SideFields : key = Key(prefix, f)]
        ELSE params[key]]

SidedParams ==
    { WithSide(WithSide(BaseParams, "first", o1), "second", o2) :
        o1 \in SideOptions, o2 \in SideOptions }

MaxShared == 2     \* at most this many of the shared parameters in one request

SharedValues(key) ==
    CASE key = "limit" -> {Null, Num(0), Num(1), Num(12), Num(100), Num(MaxLimit + 1)}
      [] key = "offset" -> {Num(1)}
      [] key = "response-type" -> {Tok("first-only"), Tok("second-only"), Null}
      [] key = "filter" -> {Tok(FilterLater), Tok(FilterSameId),
                            Tok(FilterSameIdOrLater), Tok(FilterBroken)}
      [] key = "filter_expr" -> {Tok(FilterLater), Tok(FilterBroken)}

SharedParams ==
    { p \in { [BaseParams EXCEPT !["limit"] = l, !["offset"] = o,
                                 !["response-type"] = r, !["filter"] = f,
                                 !["filter_expr"] = e] :
                e \in {Absent} \cup SharedValues("filter_expr"),
                l \in {Absent} \cup SharedValues("limit"),
                o \in {Absent} \cup SharedValues("offset"),
                r \in {Absent} \cup SharedValues("response-type"),
                f \in {Absent} \cup SharedValues("filter") } :
        Cardinality({key \in SharedKeys : p[key].k # "absent"}) <= MaxShared }

PairedParams == SidedParams \cup SharedParams

\* the parameters of a JSON body written as query-string values
QueryEncode(params) ==
    [key \in Keys |->
        LET w == params[key]
        IN CASE IsNone(w) -> Absent
             [] w.k = "list" ->
                    IF w.v = <<>> THEN Absent
                    ELSE IF key \in {Key(p, "bbox") : p \in {"first", "second"}}
                    THEN Str(join([i \in 1..Len(w.v) |-> NumStr(w.v[i])], ","))
                    ELSE Str(join(w.v, ","))
             [] w.k = "num" -> Str(NumStr(w.v))
             [] w.k = "obj" -> JsonStr(w)
             [] OTHER -> w]

Seqs(S, n) == UNION {[1..m -> S] : m \in 0..n}

\* bbox values of every arity up to MaxArity, as lists and as strings
BBoxLists == Seqs({0, 2}, MaxArity)
BBoxStrings ==
    { join([i \in 1..Len(l) |-> NumStr(l[i])], ",") : l \in BBoxLists }
    \cup { <<"x">>, <<"0", ",", ",", "0", ",", "0">>, <<"0", ",", "0", ",", "0", ",", "x">> }

RichValues(field, m) ==
    LET strings ==
            CASE field = "bbox" -> {Str(s) : s \in BBoxStrings}
              [] field = "intersects" ->
                    {Str(<<>>), Str(<<"x">>), JsonStr(Obj(Polygon(OneItemBox))),
                     JsonStr(Obj(EmptyDict)), JsonStr(Obj([type |-> "Bogus", box |-> <<>>]))}
              [] field = "ids" -> {Str(s) : s \in Seqs({"a", "b", ","}, MaxStrLen)}
              [] field = "collections" -> {Str(s) : s \in Seqs({"A", ","}, MaxStrLen)}
        typed ==
            CASE field = "bbox" -> {List(l) : l \in BBoxLists} \cup {Null, Num(0)}
              [] field = "intersects" ->
                    {Obj(Polygon(OneItemBox)), Obj(EmptyDict),
                     Obj([type |-> "Bogus", box |-> <<>>]), Null}
              [] field = "ids" ->
                    {List(l) : l \in Seqs({<<"a">>, <<"b">>}, 2)} \cup {Null}
              [] field = "collections" ->
                    {List(l) : l \in Seqs({CollA, CollB}, 2)} \cup {Null}
    IN IF m = "GET" THEN strings \cup {Absent} ELSE strings \cup typed \cup {Absent}

\* requests rich in one side's spatial pair, ids or collections
RichParams(m) ==
    { [BaseParams EXCEPT ![Key(p, "bbox")] = b, ![Key(p, "intersects")] = g] :
        p \in {"first", "second"},
        b \in RichValues("bbox", m), g \in RichValues("intersects", m) }
    \cup
    { [BaseParams EXCEPT ![Key(p, f)] = v] :
        p \in {"first", "second"}, f \in {"ids", "collections"},
        v \in RichValues("ids", m) \cup RichValues("collections", m) }

-----------------------------------------------------------------------------
(* The state machine: two requests, the second issued after the first *)

Requests == {1, 2}
Terminal == {"rejected", "failed", "done", "off"}

NoPayload ==
    [type |-> "", kind |-> "none", featurePairs |-> <<>>, features |-> <<>>,
     links |-> <<>>, numberReturned |-> 0, numberPairsReturned |-> 0,
     numberPairsMatched |-> 0, numberMatched |-> 0]

InitCommon ==
    /\ values = raw
    /\ req = [i \in Requests |-> Null]
    /\ err = [i \in Requests |-> ""]
    /\ query = [i \in Requests |-> NoParams]
    /\ items = [i \in Requests |-> NoPayload]
    /\ resp = [i \in Requests |-> NoPayload]
    /\ engineCalls = [i \in Requests |-> 0]
    /\ raised = [i \in Requests |-> ""]
    /\ baseItemFetches = [i \in Requests |-> 0]
    /\ compiled = [i \in Requests |-> NoSql]

NotLinked == [feature |-> Null, exclude |-> {}, result |-> Null]

\* nothing but requests is going on
InitIdle ==
    /\ fixed = [tree |-> NumLit(0), passes |-> <<>>]
    /\ environ = Absent
    /\ searchParams = [p \in {"first", "second"} |-> Null]
    /\ linked = NotLinked

\* one parameter set sent twice: by the same method again, or by GET and by POST
InitPaired ==
    /\ catalog \in Catalogs
    /\ useApiHydrate \in BOOLEAN
    /\ sideRows \in SideRowChoices
    /\ method \in { [i \in Requests |-> "GET"], [i \in Requests |-> "POST"],
                    [i \in Requests |-> IF i = 1 THEN "GET" ELSE "POST"] }
    /\ \E params \in PairedParams :
          raw = [i \in Requests |->
                    IF method[i] = "GET" THEN QueryEncode(params) ELSE params]
    /\ pc = [i \in Requests |-> "start"]
    /\ InitCommon
    /\ InitIdle

\* one request with any value for a side's parameters
InitRich ==
    /\ catalog = SubSeq(ItemList, 1, 3)
    /\ useApiHydrate = FALSE
    /\ sideRows = "matched"
    /\ \E m \in {"GET", "POST"} :
          /\ method = [i \in Requests |-> m]
          /\ \E params \in RichParams(m) :
                raw = [i \in Requests |-> IF i = 1 THEN params ELSE NoParams]
    /\ pc = [i \in Requests |-> IF i = 1 THEN "start" ELSE "off"]
    /\ InitCommon
    /\ InitIdle

Init == InitPaired \/ InitRich

MayRun(i) == i = 1 \/ pc[1] \in Terminal

\* a handler that goes on to the engine call whatever validation and
\* sanitizing said: C17 fails under it
Outcome_CallAnyway(r, s) ==
    [pc |-> "calling", err |-> "", req |-> r.model, query |-> s.query,
     values |-> r.values]

\* where the request stands once validated (r) and sanitized (s)
Outcome(r, s) ==
    IF r.err # ""
    THEN [pc |-> "rejected", err |-> r.err, req |-> Null, query |-> NoParams,
          values |-> r.values]
    ELSE IF s.err # ""
    THEN [pc |-> "failed", err |-> s.err, req |-> r.model, query |-> NoParams,
          values |-> r.values]
    ELSE [pc |-> "calling", err |-> "", req |-> r.model, query |-> s.query,
          values |-> r.values]

Normalized(r) ==
    Outcome(r, IF r.err # "" THEN [err |-> "", query |-> NoParams]
               ELSE _sanitize_pair_search_request(r.model))

Become(i, o) ==
    /\ pc' = [pc EXCEPT ![i] = o.pc]
    /\ err' = [err EXCEPT ![i] = o.err]
    /\ req' = [req EXCEPT ![i] = o.req]
    /\ query' = [query EXCEPT ![i] = o.query]
    /\ values' = [values EXCEPT ![i] = o.values]

\* get_pair_search / post_pair_search up to the engine call: model_validate,
\* then _pair_search_base's sanitizing of the request
Normalize(i) ==
    /\ pc[i] = "start"
    /\ MayRun(i)
    /\ Become(i, Normalized(model_validate(raw[i])))
    /\ UNCHANGED <<catalog, useApiHydrate, sideRows, method, raw, items, resp,
                   engineCalls, raised, baseItemFetches, compiled, fixed, environ,
                   searchParams, linked>>

\* an engine call that sends the other request's query: C19 fails under it
EngineCall_OtherQuery(i) ==
    /\ pc[i] = "calling"
    /\ engineCalls' = [engineCalls EXCEPT ![i] = @ + 1]
    /\ items' = [items EXCEPT ![i] =
                    pair_search_alt(catalog, query[3 - i], useApiHydrate, sideRows)]
    /\ pc' = [pc EXCEPT ![i] = "fetched"]
    /\ UNCHANGED <<catalog, useApiHydrate, sideRows, method, raw, values, req, err, query,
                   resp, raised, baseItemFetches, compiled, fixed, environ,
                   searchParams, linked>>

\* conn.fetchval("SELECT * FROM pair_search_alt(...)") returns the payload
EngineCall(i) ==
    /\ pc[i] = "calling"
    /\ engineCalls' = [engineCalls EXCEPT ![i] = @ + 1]
    /\ items' = [items EXCEPT ![i] = pair_search_alt(catalog, query[i], useApiHydrate, sideRows)]
    /\ pc' = [pc EXCEPT ![i] = "fetched"]
    /\ UNCHANGED <<catalog, useApiHydrate, sideRows, method, raw, values, req, err, query,
                   resp, raised, baseItemFetches, compiled, fixed, environ,
                   searchParams, linked>>

\* the engine call raises (connection or engine failure): the error propagates
EngineError(i) ==
    /\ pc[i] = "calling"
    /\ engineCalls' = [engineCalls EXCEPT ![i] = @ + 1]
    /\ pc' = [pc EXCEPT ![i] = "failed"]
    /\ err' = [err EXCEPT ![i] = "engine_error"]
    /\ raised' = [raised EXCEPT ![i] = "PostgresError"]
    /\ UNCHANGED <<catalog, useApiHydrate, sideRows, method, raw, values, req, query, items,
                   resp, baseItemFetches, compiled, fixed, environ, searchParams,
                   linked>>

\* the attributes of a PairSearchRequest: its fields
HasAttr(model, name) == name \in DOMAIN model

\* `except InvalidDatetimeFormatError as e: raise InvalidQueryParameter(
\* f"Datetime parameter {search_request.datetime} is invalid.") from e`:
\* the exception that leaves the handler
DatetimeHandler(model) ==
    IF HasAttr(model, "datetime") THEN "InvalidQueryParameter" ELSE "AttributeError"

\* the engine rejects a temporal literal of the request
\* (InvalidDatetimeFormatError) and the except clause runs
EngineDatetimeError(i) ==
    /\ pc[i] = "calling"
    /\ \E p \in {"first", "second"} : query[i][Key(p, "datetime")] # Absent
    /\ engineCalls' = [engineCalls EXCEPT ![i] = @ + 1]
    /\ raised' = [raised EXCEPT ![i] = "InvalidDatetimeFormatError"]
    /\ pc' = [pc EXCEPT ![i] = "failed"]
    /\ err' = [err EXCEPT ![i] = DatetimeHandler(req[i])]
    /\ UNCHANGED <<catalog, useApiHydrate, sideRows, method, raw, values, req, query, items,
                   resp, baseItemFetches, compiled, fixed, environ, searchParams,
                   linked>>

\* a base item cache that keeps nothing: C18 fails under it
BaseItemFetches_NoCache(features) == Len(features)

\* `await base_item_cache.get(feature.get("collection"))` over the features:
\* the cache fetches a collection's base item once, by _get_base_item
BaseItemFetches(features) ==
    Cardinality({features[n].collection : n \in 1..Len(features)})

\* the rest of _pair_search_base and of the handler: the response body
PostProcess(i) ==
    /\ pc[i] = "fetched"
    /\ resp' = [resp EXCEPT ![i] =
                    PostProcessed(items[i], req[i], method[i], raw[i], useApiHydrate)]
    /\ baseItemFetches' = [baseItemFetches EXCEPT ![i] =
                              IF useApiHydrate THEN BaseItemFetches(items[i].features)
                              ELSE 0]
    /\ pc' = [pc EXCEPT ![i] = "done"]
    /\ UNCHANGED <<catalog, useApiHydrate, sideRows, method, raw, values, req, err, query,
                   items, engineCalls, raised, compiled, fixed, environ, searchParams,
                   linked>>

\* _finalize_items with use_api_hydrate: fetching a base item raises, and the
\* error propagates
HydrateError(i) ==
    /\ pc[i] = "fetched"
    /\ useApiHydrate
    /\ \E k \in 1..BaseItemFetches(items[i].features) :
          baseItemFetches' = [baseItemFetches EXCEPT ![i] = k]
    /\ raised' = [raised EXCEPT ![i] = "PostgresError"]
    /\ pc' = [pc EXCEPT ![i] = "failed"]
    /\ err' = [err EXCEPT ![i] = "engine_error"]
    /\ UNCHANGED <<catalog, useApiHydrate, sideRows, method, raw, values, req, query, items,
                   resp, engineCalls, compiled, fixed, environ, searchParams, linked>>

Next ==
    \E i \in Requests :
        \/ Normalize(i)
        \/ EngineCall(i)
        \/ EngineError(i)
        \/ EngineDatetimeError(i)
        \/ PostProcess(i)
        \/ HydrateError(i)

Spec == Init /\ [][Next]_vars

-----------------------------------------------------------------------------
(* Two requests in flight at once: each coroutine runs from one await to   *)
(* the next, and the event loop interleaves the two at those points        *)

\* the parameter sets of the concurrent requests
ConcurrentParams ==
    { BaseParams,
      [BaseParams EXCEPT !["limit"] = Num(1)],
      [BaseParams EXCEPT !["limit"] = Num(1), !["offset"] = Num(1)],
      [BaseParams EXCEPT !["response-type"] = Tok("first-only"),
                         !["filter"] = Tok(FilterLater)],
      [BaseParams EXCEPT !["filter"] = Tok(FilterBroken)],
      [BaseParams EXCEPT ![Key("first", "datetime")] = Str(<<"1">>)],
      [BaseParams EXCEPT ![Key("second", "collections")] = List(<<CollB>>)],
      [BaseParams EXCEPT ![Key("first", "bbox")] = List(OneItemBox),
                         ![Key("first", "intersects")] = Obj(Polygon(OneItemBox))] }

InitConcurrent ==
    /\ catalog \in {c \in Catalogs : Len(c) >= MaxItems - 1}
    /\ useApiHydrate \in BOOLEAN
    /\ sideRows \in SideRowChoices
    /\ method \in [Requests -> {"GET", "POST"}]
    /\ \E params \in [Requests -> ConcurrentParams] :
          raw = [i \in Requests |->
                    IF method[i] = "GET" THEN QueryEncode(params[i]) ELSE params[i]]
    /\ pc = [i \in Requests |-> "start"]
    /\ InitCommon
    /\ InitIdle

\* the handler up to the engine call, whatever the other request is doing
Begin(i) ==
    /\ pc[i] = "start"
    /\ Become(i, Normalized(model_validate(raw[i])))
    /\ UNCHANGED <<catalog, useApiHydrate, sideRows, method, raw, items, resp,
                   engineCalls, raised, baseItemFetches, compiled, fixed, environ,
                   searchParams, linked>>

NextConcurrent ==
    \E i \in Requests :
        \/ Begin(i)
        \/ EngineCall(i)
        \/ EngineError(i)
        \/ EngineDatetimeError(i)
        \/ PostProcess(i)
        \/ HydrateError(i)

SpecConcurrent == InitConcurrent /\ [][NextConcurrent]_vars

-----------------------------------------------------------------------------
(* A validated request whose filter_sql property is read *)

\* the filters read: comparisons of property references whose prefix is a
\* side, none, or another word, alone or beside a comparison of the sides
FilterExprs ==
    LET PropertyNames == {"id", "datetime", "geometry", "collection", "eo:cloud_cover"}
        Prefixes == {"first", "second", "", "third"}
        Operands == {Prop(side, path) : side \in Prefixes, path \in PropertyNames}
        Comparisons ==
            {Op(op, <<a, b>>) : op \in {"=", ">"}, a \in Operands,
                                b \in Operands \cup {NumLit(80)}}
    IN {Parsed(c) : c \in Comparisons}
       \cup {Parsed(Op("and", <<Cql2ToJson(FilterLater), c>>)) : c \in Comparisons}
       \cup {Tok(FilterLater), Tok(FilterSameIdOrLater), Tok(FilterBroken), Null}

InitFilterSql ==
    /\ catalog = <<>>
    /\ useApiHydrate = FALSE
    /\ sideRows = "matched"
    /\ method = [i \in Requests |-> "POST"]
    /\ raw = [i \in Requests |-> NoParams]
    /\ pc = [i \in Requests |-> IF i = 1 THEN "model" ELSE "off"]
    /\ \E f \in FilterExprs :
          req = [i \in Requests |->
                    IF i = 1 THEN [model_validate(BaseParams).model EXCEPT !["filter"] = f]
                    ELSE Null]
    /\ values = raw
    /\ err = [i \in Requests |-> ""]
    /\ query = [i \in Requests |-> NoParams]
    /\ items = [i \in Requests |-> NoPayload]
    /\ resp = [i \in Requests |-> NoPayload]
    /\ engineCalls = [i \in Requests |-> 0]
    /\ raised = [i \in Requests |-> ""]
    /\ baseItemFetches = [i \in Requests |-> 0]
    /\ compiled = [i \in Requests |-> NoSql]
    /\ InitIdle

\* search_request.filter_sql
FilterSql(i) ==
    /\ pc[i] = "model"
    /\ compiled' = [compiled EXCEPT ![i] = filter_sql(req[i])]
    /\ pc' = [pc EXCEPT ![i] = "compiled"]
    /\ UNCHANGED <<catalog, useApiHydrate, sideRows, method, raw, values, req, err, query,
                   items, resp, engineCalls, raised, baseItemFetches, fixed, environ,
                   searchParams, linked>>

NextFilterSql == \E i \in Requests : FilterSql(i)

SpecFilterSql == InitFilterSql /\ [][NextFilterSql]_vars

-----------------------------------------------------------------------------
(* _fix_filter applied to a filter tree, and again to what it returned *)

MaxNesting == 2
MaxPasses == 2

\* a JSON array among the arguments of an operation, as of `in`
ArrayNode(elements) == [t |-> "list", args |-> elements]

FilterLeaves == {NumLit(-1), NumLit(5), Prop("first", "x")}

\* the trees of a set, each also negated, added to, compared and listed
Nested(trees) ==
    trees
    \cup {Op("*", <<NumLit(-1), a>>) : a \in trees}
    \cup {Op("+", <<a, NumLit(5)>>) : a \in trees}
    \cup {Op("=", <<Prop("first", "x"), a>>) : a \in trees}
    \cup {Op("in", <<Prop("first", "x"), ArrayNode(<<a>>)>>) : a \in trees}

RECURSIVE FilterTrees(_)
FilterTrees(depth) ==
    IF depth = 0 THEN FilterLeaves ELSE Nested(FilterTrees(depth - 1))

\* no request is being handled
NoRequests ==
    /\ catalog = <<>>
    /\ useApiHydrate = FALSE
    /\ sideRows = "matched"
    /\ method = [i \in Requests |-> "POST"]
    /\ raw = [i \in Requests |-> NoParams]
    /\ pc = [i \in Requests |-> "off"]
    /\ InitCommon

InitFixFilter ==
    /\ NoRequests
    /\ \E tree \in FilterTrees(MaxNesting) : fixed = [tree |-> tree, passes |-> <<>>]
    /\ environ = Absent
    /\ searchParams = [p \in {"first", "second"} |-> Null]
    /\ linked = NotLinked

\* the value the next pass is applied to
LastFixed == IF fixed.passes = <<>> THEN fixed.tree ELSE fixed.passes[Len(fixed.passes)]

\* the call returns the dict it was given, its "args" assigned anew
ReturnsArgument(node) ==
    /\ node.t = "op"
    /\ ~(/\ node.op = "*"
          /\ IsNumLit(node.args[1]) /\ node.args[1].val = -1
          /\ IsNumLit(node.args[2]))

\* _fix_filter(query), then _fix_filter of what it returned
FixFilter ==
    /\ Len(fixed.passes) < MaxPasses
    /\ fixed' = [tree |-> IF LastFixed = fixed.tree /\ ReturnsArgument(fixed.tree)
                          THEN _fix_filter(fixed.tree) ELSE fixed.tree,
                 passes |-> Append(fixed.passes, _fix_filter(LastFixed))]
    /\ UNCHANGED <<catalog, useApiHydrate, sideRows, method, raw, values, pc, req, err,
                   query, items, resp, engineCalls, raised, baseItemFetches, compiled,
                   environ, searchParams, linked>>

SpecFixFilter == InitFixFilter /\ [][FixFilter]_vars

-----------------------------------------------------------------------------
(* first_search_params / second_search_params of a validated request *)

\* values of PAIR_SEARCH_COLLECTION_SEARCH_LIMIT
EnvironValues ==
    {Absent, Str(NumStr(500)), Str(NumStr(2 * MaxLimit)), Str(<<"0">>), Str(<<"x">>)}

\* int(os.getenv("PAIR_SEARCH_COLLECTION_SEARCH_LIMIT", COLLECTION_SEARCH_LIMIT)),
\* then BaseSearchPostRequest.limit: Optional[Limit]; [ok, v]
SearchLimit(env) ==
    IF env = Absent THEN ValidateLimit(Num(COLLECTION_SEARCH_LIMIT))
    ELSE IF ~IsNumeric(env.v) THEN [ok |-> FALSE, v |-> Null]
    ELSE ValidateLimit(Num(ToNum(env.v)))

\* BaseSearchPostRequest(...): [err, params]
BaseSearchPostRequest(bbox, datetime, intersects, ids, collections, limit) ==
    IF ~limit.ok THEN [err |-> "ValueError", params |-> Null]
    ELSE [err |-> "",
          params |-> [bbox |-> bbox, datetime |-> datetime, intersects |-> intersects,
                      ids |-> ids, collections |-> collections, limit |-> limit.v]]

first_search_params(model, env) ==
    BaseSearchPostRequest(model["first-bbox"], model["first-datetime"],
                          model["first-intersects"], model["first-ids"],
                          model["first-collections"], SearchLimit(env))

\* the limit taken from the request
second_search_params_PairLimit(model, env) ==
    BaseSearchPostRequest(model["second-bbox"], model["second-datetime"],
                          model["second-intersects"], model["second-ids"],
                          model["second-collections"], [ok |-> TRUE, v |-> model["limit"]])

second_search_params(model, env) ==
    BaseSearchPostRequest(model["second-bbox"], model["second-datetime"],
                          model["second-intersects"], model["second-ids"],
                          model["second-collections"], SearchLimit(env))

\* requests that differ in the side parameters, or in limit and offset
SearchRequests ==
    {model_validate(p).model :
        p \in {q \in SidedParams
                      \cup {[BaseParams EXCEPT !["limit"] = Num(l), !["offset"] = Num(o)] :
                                l \in {1, 12}, o \in {0, 1}} :
                  model_validate(q).err = ""}}

InitSearchParams ==
    /\ catalog = <<>>
    /\ useApiHydrate = FALSE
    /\ sideRows = "matched"
    /\ method = [i \in Requests |-> "POST"]
    /\ raw = [i \in Requests |-> NoParams]
    /\ pc = [i \in Requests |-> IF i = 1 THEN "model" ELSE "off"]
    /\ \E model \in SearchRequests : req = [i \in Requests |-> IF i = 1 THEN model ELSE Null]
    /\ values = raw
    /\ err = [i \in Requests |-> ""]
    /\ query = [i \in Requests |-> NoParams]
    /\ items = [i \in Requests |-> NoPayload]
    /\ resp = [i \in Requests |-> NoPayload]
    /\ engineCalls = [i \in Requests |-> 0]
    /\ raised = [i \in Requests |-> ""]
    /\ baseItemFetches = [i \in Requests |-> 0]
    /\ compiled = [i \in Requests |-> NoSql]
    /\ fixed = [tree |-> NumLit(0), passes |-> <<>>]
    /\ environ \in EnvironValues
    /\ searchParams = [p \in {"first", "second"} |-> Null]
    /\ linked = NotLinked

\* search_request.first_search_params()
FirstSearchParams ==
    /\ searchParams["first"] = Null
    /\ searchParams' = [searchParams EXCEPT !["first"] = first_search_params(req[1], environ)]
    /\ UNCHANGED <<catalog, useApiHydrate, sideRows, method, raw, values, pc, req, err,
                   query, items, resp, engineCalls, raised, baseItemFetches, compiled,
                   fixed, environ, linked>>

\* search_request.second_search_params()
SecondSearchParams ==
    /\ searchParams["second"] = Null
    /\ searchParams' = [searchParams EXCEPT !["second"] = second_search_params(req[1], environ)]
    /\ UNCHANGED <<catalog, useApiHydrate, sideRows, method, raw, values, pc, req, err,
                   query, items, resp, engineCalls, raised, baseItemFetches, compiled,
                   fixed, environ, linked>>

NextSearchParams == FirstSearchParams \/ SecondSearchParams

SpecSearchParams == InitSearchParams /\ [][NextSearchParams]_vars

-----------------------------------------------------------------------------
(* _add_item_links applied to a feature under an exclusion set *)

\* features as the engine returns them, and without one or both identifiers
LinkFeatures ==
    {[Feature(ItemList[n], FALSE) EXCEPT !.id = IF noId THEN <<>> ELSE @,
                                         !.collection = IF noCollection THEN <<>> ELSE @] :
        n \in 1..Len(ItemList), noId \in BOOLEAN, noCollection \in BOOLEAN}

\* fields.exclude
ExcludeSets == SUBSET {"links", "assets"}

InitAddItemLinks ==
    /\ NoRequests
    /\ fixed = [tree |-> NumLit(0), passes |-> <<>>]
    /\ environ = Absent
    /\ searchParams = [p \in {"first", "second"} |-> Null]
    /\ \E feature \in LinkFeatures, exclude \in ExcludeSets :
          linked = [feature |-> feature, exclude |-> exclude, result |-> Null]

\* await _add_item_links(feature)
AddItemLinks ==
    /\ linked.feature # Null
    /\ linked.result = Null
    /\ linked' = [linked EXCEPT !.result = _add_item_links(linked.feature, linked.exclude)]
    /\ UNCHANGED <<catalog, useApiHydrate, sideRows, method, raw, values, pc, req, err,
                   query, items, resp, engineCalls, raised, baseItemFetches, compiled,
                   fixed, environ, searchParams>>

SpecAddItemLinks == InitAddItemLinks /\ [][AddItemLinks]_vars

-----------------------------------------------------------------------------
(* The properties *)

Finished(i) == pc[i] = "done"
Accepted(i) == pc[i] \notin {"start", "off", "rejected"}
Supplied(w) == ~IsNone(w)
Other(p) == IF p = "first" THEN "second" ELSE "first"
SideIndex(p) == IF p = "first" THEN 1 ELSE 2

\* the limit a request asks for: 10 when it gives none
RequestedLimit(w) ==
    CASE w.k \in {"absent", "null"} -> 10
      [] w.k = "num" -> Min(w.v, MaxLimit)
      [] w.k = "str" -> Min(ToNum(w.v), MaxLimit)

PairIds(pairs) ==
    {pairs[n][1] : n \in 1..Len(pairs)} \cup {pairs[n][2] : n \in 1..Len(pairs)}
PairSet(pairs) == {pairs[n] : n \in 1..Len(pairs)}
FeatureIds(features) == {features[n].id : n \in 1..Len(features)}

\* C1: no pair of a response's featurePairs has the same item id on both
\* sides, whatever the catalog and the request, with a relational filter or
\* without one.
C1_NoSelfPairs ==
    \A i \in Requests :
        /\ \A n \in 1..Len(items[i].featurePairs) :
              items[i].featurePairs[n][1] # items[i].featurePairs[n][2]
        /\ \A n \in 1..Len(resp[i].featurePairs) :
              resp[i].featurePairs[n][1] # resp[i].featurePairs[n][2]

\* a finished request whose filter admits pairs of equal ids, with pairs returned
C1_Witness ==
    \E i \in Requests :
        /\ Finished(i)
        /\ raw[i]["filter"] = Tok(FilterSameIdOrLater)
        /\ resp[i].featurePairs # <<>>

C3_PairsAndFeaturesAgree ==
    \A i \in Requests :
        /\ pc[i] \in {"fetched", "done"} /\ items[i].kind = "pair" =>
              PairIds(items[i].featurePairs) = FeatureIds(items[i].features)
        /\ Finished(i) /\ resp[i].kind = "pair" =>
              PairIds(resp[i].featurePairs) = FeatureIds(resp[i].features)

\* a response of one pair out of several, its two features with item links
C3_Witness ==
    \E i \in Requests :
        /\ Finished(i)
        /\ ~useApiHydrate
        /\ resp[i].numberPairsMatched > 1
        /\ Len(resp[i].featurePairs) = 1
        /\ Len(resp[i].features) = 2
        /\ \A n \in 1..2 : resp[i].features[n].links = "item-links"

\* C4: a request that supplies bbox and intersects for the same side is
\* rejected by validation, by either method and for every value of the two,
\* and no engine call is made for it.
C4_MutuallyExclusive ==
    \A i \in Requests : \A p \in {"first", "second"} :
        /\ pc[i] # "start"
        /\ Supplied(raw[i][Key(p, "bbox")])
        /\ Supplied(raw[i][Key(p, "intersects")])
        => pc[i] = "rejected" /\ err[i] # "" /\ engineCalls[i] = 0

\* a POST request with a bbox and a geometry for one side, rejected as exclusive
C4_Witness ==
    \E i \in Requests : \E p \in {"first", "second"} :
        /\ method[i] = "POST"
        /\ raw[i][Key(p, "bbox")] = List(<<0, 0, 2, 2>>)
        /\ raw[i][Key(p, "intersects")] = Obj(Polygon(OneItemBox))
        /\ pc[i] = "rejected"
        /\ err[i] = "mutually_exclusive"
        /\ engineCalls[i] = 0

\* request 1 by GET and request 2 by POST carry the same parameters
SameParameters == method[1] = "GET" /\ method[2] = "POST" /\ pc[2] # "off"

\* the links of a GET response (g) and of a POST response (q): the same rels in
\* the same order, equal but for next and prev, which replay the same offset
\* by their own method
LinksAgree(g, q) ==
    /\ Len(g) = Len(q)
    /\ \A n \in 1..Len(g) :
          /\ g[n].rel = q[n].rel
          /\ IF g[n].rel \in {"next", "prev"}
             THEN /\ g[n].method = "GET" /\ q[n].method = "POST"
                  /\ g[n].body = NoParams /\ q[n].href.query = NoParams
                  /\ g[n].href.query["offset"] = AsQueryValue(q[n].body["offset"])
             ELSE g[n] = q[n]

SingleCollection(i, c) ==
    /\ \A p \in {"first", "second"} :
          raw[i][Key(p, "collections")] \in {List(<<c>>), Str(c)}
    /\ \A key \in Keys :
          raw[i][key].k # "absent" =>
              key \in {"limit", Key("first", "collections"), Key("second", "collections")}

CollectionIds(c) ==
    {catalog[n].id : n \in {m \in 1..Len(catalog) : catalog[m].collection = c}}

\* C6: a request naming one collection on both sides, with no other constraint
\* and no filter and a limit of at least N*(N-1), N the collection's item
\* count, returns exactly the ordered pairs of distinct items of the
\* collection, and numberPairsReturned = min(limit, N*(N-1)).
C6_AllOrderedPairs ==
    \A i \in Requests : \A c \in {CollA, CollB} :
        LET ids == CollectionIds(c)
            N == Cardinality(ids)
        IN /\ Finished(i)
           /\ SingleCollection(i, c)
           /\ RequestedLimit(raw[i]["limit"]) >= N * (N - 1)
           => /\ PairSet(resp[i].featurePairs) =
                    {pair \in ids \X ids : pair[1] # pair[2]}
              /\ Len(resp[i].featurePairs) = N * (N - 1)
              /\ resp[i].numberPairsReturned =
                    Min(RequestedLimit(raw[i]["limit"]), N * (N - 1))

\* a collection of 4 items asked with limit 12: 12 pairs
C6_Witness ==
    \E i \in Requests :
        /\ Finished(i)
        /\ SingleCollection(i, CollA)
        /\ Cardinality(CollectionIds(CollA)) = 4
        /\ RequestedLimit(raw[i]["limit"]) = 12
        /\ Len(resp[i].featurePairs) = 12

\* side p of request i is sent with a bbox, intersects, ids or datetime constraint
Carries(i, p) ==
    \E f \in {"bbox", "intersects", "ids", "datetime"} :
        Supplied(raw[i][Key(p, f)]) /\ raw[i][Key(p, f)] # List(<<>>)

\* the items side p of request i is satisfied by
Candidates(i, p) == SideSearch(catalog, query[i], p)

\* the items of the collections side p of request i is sent with
InCollections(i, p) ==
    LET w == raw[i][Key(p, "collections")]
    IN {catalog[n] : n \in {m \in 1..Len(catalog) :
            \/ IsNone(w)
            \/ w.k = "str" /\ InList(catalog[m].collection, split(w.v, ","))
            \/ w.k = "list" /\ InList(catalog[m].collection, w.v)}}

\* side p alone is constrained, and exactly one item satisfies it
OneSided(i, p) ==
    /\ Finished(i)
    /\ resp[i].kind = "pair"
    /\ raw[i]["filter"].k = "absent"
    /\ Carries(i, p) /\ ~Carries(i, Other(p))
    /\ Len(Candidates(i, p)) = 1

\* C7 (amended): when a side constraint is satisfied by exactly one item, a
\* request carrying it on both sides gets zero pairs; a request carrying it on
\* one side gets only pairs with that item on that side, and gets at least
\* one exactly when the other side matches an item of another id.
C7_SingleItemConstraint ==
    \A i \in Requests :
        /\ /\ Finished(i) /\ resp[i].kind = "pair"
           /\ Carries(i, "first") /\ Carries(i, "second")
           /\ Len(Candidates(i, "first")) = 1
           /\ Candidates(i, "second") = Candidates(i, "first")
           => resp[i].featurePairs = <<>> /\ resp[i].numberPairsReturned = 0
        /\ \A p \in {"first", "second"} :
              OneSided(i, p) =>
                  /\ \A n \in 1..Len(resp[i].featurePairs) :
                        resp[i].featurePairs[n][SideIndex(p)] = Candidates(i, p)[1].id
                  /\ resp[i].featurePairs # <<>> <=>
                        \E item \in InCollections(i, Other(p)) :
                            item.id # Candidates(i, p)[1].id

\* a bbox on the first side only, one item in it, and pairs returned
C7_Witness ==
    \E i \in Requests :
        /\ OneSided(i, "first")
        /\ method[i] = "GET"
        /\ query[i][Key("first", "bbox")] = List(OneItemBox)
        /\ resp[i].featurePairs # <<>>

\* C7 as stated: with the constraint on one side only, the pair set is
\* non-empty.
C7_OneSidedNonEmpty ==
    \A i \in Requests : \A p \in {"first", "second"} :
        OneSided(i, p) => resp[i].featurePairs # <<>>

\* C9 as stated: a string value of ids or of collections becomes the list of
\* its comma-separated parts, and a list value is passed through unchanged.
C9_SplitOnCommas ==
    \A i \in Requests : \A p \in {"first", "second"} :
        \A f \in {"ids", "collections"} :
            Accepted(i) =>
                /\ raw[i][Key(p, f)].k = "str" =>
                      req[i][Key(p, f)] = List(split(raw[i][Key(p, f)].v, ","))
                /\ raw[i][Key(p, f)].k = "list" =>
                      req[i][Key(p, f)] = raw[i][Key(p, f)]

\* the components of a bbox value: [numeric, n]
BBoxShape(w) ==
    CASE w.k = "str" ->
            [numeric |-> \A n \in 1..Len(split(w.v, ",")) :
                            IsNumeric(split(w.v, ",")[n]),
             n |-> Len(split(w.v, ","))]
      [] w.k = "list" -> [numeric |-> TRUE, n |-> Len(w.v)]
      [] OTHER -> [numeric |-> FALSE, n |-> 0]

OnlyKey(i, key) ==
    \A k \in Keys \ {key} :
        raw[i][k] = BaseParams[k] \/ raw[i][k] = QueryEncode(BaseParams)[k]

C12_LimitAlwaysSet ==
    \A i \in Requests :
        Accepted(i) =>
            /\ req[i]["limit"].k = "num"
            /\ req[i]["limit"].v > 0 /\ req[i]["limit"].v <= MaxLimit
            /\ raw[i]["limit"] = Absent => req[i]["limit"] = Num(DefaultLimit)
            /\ raw[i]["limit"] \in {Num(MaxLimit + 1), Str(NumStr(MaxLimit + 1))} =>
                  req[i]["limit"] = Num(MaxLimit)

\* the request carries, under the `filter` parameter, a text that is not a
\* valid expression of the filter language
InvalidFilter(i) ==
    /\ Truthy(raw[i]["filter"])
    /\ ~(raw[i]["filter"].k = "tok" /\ Cql2Valid(raw[i]["filter"].v))

\* C13 as stated: a request whose filter is not a valid expression of the
\* filter language fails normalization with a validation error that carries
\* the parser's message, before any engine call.
C13_InvalidFilterRejected ==
    \A i \in Requests :
        pc[i] \notin {"start", "off"} /\ InvalidFilter(i) =>
            /\ pc[i] = "rejected"
            /\ err[i] = "invalid_cql2"
            /\ engineCalls[i] = 0

\* the side a response type names: 1 for first-only, 2 for second-only, else 0
NamedSide(w) ==
    IF w = Tok("first-only") THEN 1 ELSE IF w = Tok("second-only") THEN 2 ELSE 0

\* the ids of the named side's members of a list of pairs
MemberIds(pairs, side) == {pairs[n][side].id : n \in 1..Len(pairs)}

C15_TypedDatetimeError ==
    \A i \in Requests :
        raised[i] = "InvalidDatetimeFormatError" =>
            /\ pc[i] = "failed"
            /\ err[i] = "InvalidQueryParameter"
            /\ resp[i] = NoPayload

\* the links of the given rel in a sequence of links
WithRel(links, rel) == {n \in 1..Len(links) : links[n].rel = rel}

\* the parameters of the original request with the engine's pagination
\* parameters put over them, as the method carries them
Replayed(i, parameters) ==
    [key \in Keys |->
        IF parameters[key] = Absent THEN raw[i][key]
        ELSE IF method[i] = "GET" /\ parameters[key].k = "num"
        THEN Str(NumStr(parameters[key].v))
        ELSE parameters[key]]

\* C16: the links of every response contain a root link and a self link, and
\* a next (prev) link exactly when the engine's payload carried a next (prev)
\* link; a next/prev link replays the parameters of the original request with
\* the engine's pagination parameters over same-named ones, in the query
\* string for GET and in the body for POST.
C16_ResponseLinks ==
    \A i \in Requests :
        Finished(i) =>
            /\ WithRel(resp[i].links, "root") # {}
            /\ WithRel(resp[i].links, "self") # {}
            /\ \A rel \in {"next", "prev"} :
                  /\ Cardinality(WithRel(resp[i].links, rel)) =
                        Cardinality(WithRel(items[i].links, rel))
                  /\ Cardinality(WithRel(resp[i].links, rel)) <= 1
                  /\ \A n \in WithRel(resp[i].links, rel) :
                     \A m \in WithRel(items[i].links, rel) :
                        /\ resp[i].links[n].method = method[i]
                        /\ method[i] = "GET" =>
                              /\ resp[i].links[n].href.query =
                                    Replayed(i, items[i].links[m].parameters)
                              /\ resp[i].links[n].body = NoParams
                        /\ method[i] = "POST" =>
                              /\ resp[i].links[n].body =
                                    Replayed(i, items[i].links[m].parameters)
                              /\ resp[i].links[n].href.query = NoParams

\* a GET response with a next and a prev link, the prev link's offset
\* replacing the offset the request gave
C16_Witness ==
    \E i \in Requests :
        /\ Finished(i)
        /\ method[i] = "GET"
        /\ raw[i]["offset"] # Absent
        /\ WithRel(resp[i].links, "next") # {}
        /\ \E n \in WithRel(resp[i].links, "prev") :
              /\ resp[i].links[n].href.query["offset"] # raw[i]["offset"]
              /\ resp[i].links[n].href.query["limit"] = raw[i]["limit"]

\* validation of the request, or the sanitizing of its filter, raises
Fails(i) ==
    IF model_validate(raw[i]).err # "" THEN TRUE
    ELSE _sanitize_pair_search_request(model_validate(raw[i]).model).err # ""

\* C17: within one request the phases are strictly ordered. The engine call
\* starts only once the request is normalized and sanitized, post-processing
\* (the response body) starts only after the engine call has returned, and a
\* request whose validation or filter compilation fails never reaches the
\* engine: no step that calls the engine is taken for it.
C17_PhaseOrder ==
    [][\A i \in Requests :
          /\ engineCalls'[i] # engineCalls[i] =>
                /\ pc[i] = "calling"
                /\ ~Fails(i)
                /\ req[i] = model_validate(raw[i]).model
                /\ query[i] = _sanitize_pair_search_request(req[i]).query
                /\ resp[i] = NoPayload
          /\ resp'[i] # resp[i] =>
                /\ pc[i] = "fetched"
                /\ engineCalls[i] = 1
                /\ engineCalls'[i] = 1
                /\ items'[i] = items[i]]_vars

\* a request with a filter answered after one engine call, its filter
\* compiled before the call
C17_Witness ==
    \E i \in Requests :
        /\ Finished(i) /\ engineCalls[i] = 1 /\ resp[i] # NoPayload
        /\ raw[i]["filter"].k = "tok"
        /\ query[i]["filter"].k = "tree"

\* C18 (amended): handling one pair-search request performs at most one
\* round trip to the engine's pair search, never re-issued: when a call
\* fails, the failure ends the request. With API-side hydration enabled,
\* post-processing makes further round trips, one for the base item of each
\* distinct collection among the returned features, and none without it.
C18_RoundTrips ==
    \A i \in Requests :
        /\ engineCalls[i] <= 1
        /\ baseItemFetches[i] <=
              Cardinality({items[i].features[n].collection :
                              n \in 1..Len(items[i].features)})
        /\ baseItemFetches[i] > 0 => useApiHydrate /\ engineCalls[i] = 1
        /\ Finished(i) /\ useApiHydrate =>
              baseItemFetches[i] =
                  Cardinality({resp[i].features[n].collection :
                                  n \in 1..Len(resp[i].features)})
        /\ raised[i] # "" =>
              /\ pc[i] = "failed"
              /\ err[i] # ""
              /\ engineCalls[i] = 1
              /\ resp[i] = NoPayload

\* a hydrated response of several features of one collection: two round trips
C18_Witness ==
    \E i \in Requests :
        /\ Finished(i)
        /\ useApiHydrate
        /\ Len(resp[i].features) > 1
        /\ engineCalls[i] = 1
        /\ baseItemFetches[i] = 1

\* C18 as stated: handling one request performs one round trip at most,
\* API-side hydration included.
C18_SingleRoundTrip ==
    \A i \in Requests : engineCalls[i] + baseItemFetches[i] <= 1

\* the response request i produces when it runs alone on the catalog
AloneResponse(i) ==
    PostProcessed(
        pair_search_alt(catalog,
                        _sanitize_pair_search_request(model_validate(raw[i]).model).query,
                        useApiHydrate, sideRows),
        model_validate(raw[i]).model, method[i], raw[i], useApiHydrate)

\* C19: for any interleaving of two concurrent requests at their suspension
\* points, each request ends as it would alone on the same catalog: it is
\* rejected or fails before the engine exactly when its own parameters make
\* it so, and the response of a request that is answered equals the response
\* it produces when run alone.
C19_Isolation ==
    \A i \in Requests :
        /\ pc[i] # "start" => (pc[i] = "rejected" <=> model_validate(raw[i]).err # "")
        /\ pc[i] = "failed" /\ raised[i] = "" => Fails(i)
        /\ Finished(i) => resp[i] = AloneResponse(i)

\* a request answered while a different request is between its engine call
\* and its post-processing
C19_Witness ==
    /\ Finished(1)
    /\ pc[2] = "fetched"
    /\ raw[1] # raw[2]
    /\ items[1] # items[2]
    /\ resp[1] = AloneResponse(1)

\* some property reference of the filter has no side prefix
RECURSIVE HasUnscoped(_)
HasUnscoped(node) ==
    CASE node.t = "prop" -> node.side \notin {"first", "second"}
      [] node.t = "op" -> \E n \in 1..Len(node.args) : HasUnscoped(node.args[n])
      [] OTHER -> FALSE

\* C20 as stated: compiling a filter in which a property reference has no
\* recognized side prefix fails with a compile error, and no compiled
\* fragment still contains an unrewritten property reference.
C20_UnscopedRejected ==
    \A i \in Requests :
        pc[i] = "compiled" =>
            /\ Cql2Expr(req[i]["filter"]).ok /\ HasUnscoped(Cql2Expr(req[i]["filter"]).tree) =>
                  compiled[i].err # ""
            /\ \A n \in 1..Len(compiled[i].template) :
                  compiled[i].template[n].t # "ident"

\* the SQL text of the filter of request i before the substitution
SqlOf(i) == to_sql(Cql2Expr(req[i]["filter"]).tree)
Compilable(i) == pc[i] = "compiled" /\ compiled[i].template # <<>>
SideRef(token) == token.t = "ident" /\ token.side \in {"first", "second"}

\* C21: a side-prefixed property reference without a colon is rewritten by
\* its name alone: geometry to a direct access, without string cast, to the
\* side's geometry field, id and collection to a string access to the
\* side's top-level field, any other name to a string access into the
\* side's properties bag; the side of the access is the prefix of the
\* reference.
C21_RewriteByName ==
    \A i \in Requests :
        Compilable(i) =>
            \A n \in 1..Len(SqlOf(i)) :
                SideRef(SqlOf(i)[n]) /\ SqlOf(i)[n].path \notin ColonNames =>
                    compiled[i].template[n + 1] =
                        [t |-> "col", prefix |-> SqlOf(i)[n].side,
                         root |-> SqlOf(i)[n].path \in {"geometry", "id", "collection"},
                         text |-> SqlOf(i)[n].path # "geometry",
                         key |-> [k |-> "lit", v |-> SqlOf(i)[n].path]]

\* a filter comparing the geometry of one side with the id of the other
C21_Witness ==
    \E i \in Requests :
        /\ Compilable(i)
        /\ \E n, m \in 1..Len(compiled[i].template) :
              /\ compiled[i].template[n].t = "col"
              /\ compiled[i].template[m].t = "col"
              /\ compiled[i].template[n].prefix = "first"
              /\ compiled[i].template[n].root /\ ~compiled[i].template[n].text
              /\ compiled[i].template[m].prefix = "second"
              /\ compiled[i].template[m].root /\ compiled[i].template[m].text

\* the parameter mapping binds the placeholder of key to name
Binds(params, key, name) ==
    /\ key.k = "param"
    /\ \E b \in 1..Len(params) : params[b].name = key.v /\ params[b].value = name

\* C22 as stated: no property reference whose name contains a colon leaves
\* its literal name in the emitted fragment; a prop_N placeholder stands in
\* its place and the parameter mapping binds that prop_N to the name.
C22_ColonNamesBound ==
    \A i \in Requests :
        Compilable(i) =>
            \A n \in 1..Len(SqlOf(i)) :
                SqlOf(i)[n].t = "ident" /\ SqlOf(i)[n].path \in ColonNames =>
                    /\ compiled[i].template[n + 1].t = "col"
                    /\ Binds(compiled[i].params, compiled[i].template[n + 1].key,
                             SqlOf(i)[n].path)

\* the positions of the fragment that hold a prop_N placeholder
Placeholders(template) ==
    {n \in 1..Len(template) : template[n].t = "col" /\ template[n].key.k = "param"}

\* C23: within one compilation the parameter names grow with the position
\* of the reference, none is used for two references (also when both have
\* the same property name), and the keys of the parameter mapping are
\* exactly the placeholders of the fragment, each occurring once.
C23_ParameterNames ==
    \A i \in Requests :
        Compilable(i) =>
            /\ \A n, m \in Placeholders(compiled[i].template) :
                  n < m => compiled[i].template[n].key.v < compiled[i].template[m].key.v
            /\ \A a, b \in 1..Len(compiled[i].params) :
                  a # b => compiled[i].params[a].name # compiled[i].params[b].name
            /\ {compiled[i].params[a].name : a \in 1..Len(compiled[i].params)}
                  = {compiled[i].template[n].key.v : n \in Placeholders(compiled[i].template)}

\* a filter comparing the same colon-named property of the two sides
C23_Witness ==
    \E i \in Requests :
        /\ Compilable(i)
        /\ Len(compiled[i].params) = 2
        /\ compiled[i].params[1].value = compiled[i].params[2].value
        /\ Cardinality(Placeholders(compiled[i].template)) = 2

\* the parentheses open after the first n tokens of the fragment
RECURSIVE OpenAt(_, _)
OpenAt(template, n) ==
    IF n = 0 THEN 0
    ELSE OpenAt(template, n - 1)
         + (IF template[n] = [t |-> "text", v |-> "("] THEN 1
            ELSE IF template[n] = [t |-> "text", v |-> ")"] THEN -1 ELSE 0)

IsNegated(node) ==
    /\ node.t = "op" /\ node.op = "*" /\ Len(node.args) = 2
    /\ node.args[1] = [t |-> "num", val |-> -1]
    /\ node.args[2].t = "num"

\* the tree holds a multiply(-1, numeric literal) node somewhere
RECURSIVE HasNegated(_)
HasNegated(node) ==
    \/ IsNegated(node)
    \/ node.t \in {"op", "list"} /\ \E n \in 1..Len(node.args) : HasNegated(node.args[n])

\* C24 as stated: after filter normalization no node multiply(-1, numeric
\* literal) remains anywhere in the filter tree, at any nesting depth and
\* inside any kind of node.
C24_NoNegationLeft ==
    Len(fixed.passes) >= 1 => ~HasNegated(fixed.passes[1])

\* C29 as stated: _fix_filter applied to the result of _fix_filter returns
\* that result unchanged, nested multiply(-1, multiply(-1, n)) included.
C29_Idempotent ==
    Len(fixed.passes) >= 2 => fixed.passes[2] = fixed.passes[1]

\* the per-side cap the configuration asks for
ConfiguredCap == IF environ = [k |-> "absent"] THEN 1000 ELSE ToNum(environ.v)
CapUsable == environ = [k |-> "absent"] \/ (IsNumeric(environ.v) /\ ToNum(environ.v) > 0)

\* the sub-search parameters of side p are that side's fields of the request
OwnFields(p) ==
    /\ searchParams[p].params.bbox = req[1][p \o "-bbox"]
    /\ searchParams[p].params.datetime = req[1][p \o "-datetime"]
    /\ searchParams[p].params.intersects = req[1][p \o "-intersects"]
    /\ searchParams[p].params.ids = req[1][p \o "-ids"]
    /\ searchParams[p].params.collections = req[1][p \o "-collections"]

\* C26 (amended): the sub-search parameters built for a side hold that
\* side's bbox, datetime, intersects, ids and collections and nothing of the
\* other side, and their limit is the configured per-side cap (1,000 when
\* none is configured) cropped to 10,000, whatever the request's pair limit
\* and offset; a configured cap that is no positive integer makes building
\* them fail.
C26_SubSearchParams ==
    \A p \in {"first", "second"} :
        searchParams[p] # [k |-> "null"] =>
            IF CapUsable
            THEN /\ searchParams[p].err = ""
                 /\ OwnFields(p)
                 /\ searchParams[p].params.limit =
                        [k |-> "num", v |-> IF ConfiguredCap > 10000 THEN 10000
                                            ELSE ConfiguredCap]
            ELSE searchParams[p].err # ""

\* both sides built under a configured cap above 10,000, for a request
\* whose sides differ
C26_Witness ==
    /\ searchParams["first"] # [k |-> "null"]
    /\ searchParams["second"] # [k |-> "null"]
    /\ environ # [k |-> "absent"] /\ CapUsable /\ ConfiguredCap > 10000
    /\ searchParams["first"].err = "" /\ searchParams["second"].err = ""
    /\ searchParams["first"].params.limit.v = 10000
    /\ searchParams["first"].params # searchParams["second"].params

\* C26 as stated: the limit of the sub-search parameters is the configured
\* per-side cap.
C26_ConfiguredCap ==
    \A p \in {"first", "second"} :
        searchParams[p] # [k |-> "null"] /\ CapUsable =>
            /\ searchParams[p].err = ""
            /\ OwnFields(p)
            /\ searchParams[p].params.limit = [k |-> "num", v |-> ConfiguredCap]

\* C27 as stated: links are built for an item exactly when the exclusion set
\* does not contain links and the item has a collection id and an item id;
\* an item lacking either gets no links even under an empty exclusion set.
C27_LinksBuiltIff ==
    linked.result # [k |-> "null"] =>
        ((linked.result.links # linked.feature.links)
            <=> /\ "links" \notin linked.exclude
                /\ linked.feature.collection # <<>>
                /\ linked.feature.id # <<>>)

\* C28 as stated: no stage mutates its input; after request normalization
\* the parameter mapping the request handed in is as it was sent.
C28_InputsUnchanged ==
    \A i \in Requests :
        method[i] = "GET" /\ pc[i] # "start" => values[i] = raw[i]

=============================================================================
